---- MODULE Spec2Model ----
(***************************************************************************)
(* A model of imposter-cli's engine control loop (cmd/up.go), of its       *)
(* recording proxy (proxy/proxy.go) and of the earlier commands that drive *)
(* the engine's container themselves.                                      *)
(*                                                                         *)
(* Spec          the control loop, the interrupt handler and the engine    *)
(* FairSpec      the same with the fairness the Go scheduler gives         *)
(*               goroutines                                                *)
(* ProxySpec     a sequence of proxy.Handle invocations                    *)
(* ContainerSpec one run of a container-direct command                     *)
(***************************************************************************)
EXTENDS Integers, Sequences, FiniteSets, TLC

\* ------------------------------------------------------------- bounds
\* directory-change events the watcher emits in one run
MaxRestarts == 2
\* registrations counted per engine instance (the count saturates here)
MaxWaiters == 3
\* Handle invocations in one run
MaxRequests == 2

VARIABLES
    \* cmd/up.go: package-level state
    stopCh,            \* "nil" before startControlLoop makes the channel, then "ch"
    terminating,
    restartsPending,
    restartOnChange,   \* flagRestartOnChange: dirUpdated is nil when FALSE
    loopPc,            \* position of startControlLoop
    handlerPc,         \* position of trapExit's goroutine
    \* the engine handle and its debounced stop notification
    current,           \* id of the current engine instance, 0 before Start
    engState,          \* instance id -> "none" | "running" | "stopping" | "stopped"
    stopErr,           \* instance id -> the stop carried an error
    regs,              \* instance id -> registrations of stopCh for its stop
    signalled,         \* instances whose stop event has been delivered to a waiter
    inflight,          \* stop events being sent on stopCh, oldest first
    \* what the run has done so far
    dirHandled,        \* directory-change events handled (= Restart calls)
    stopsRecv,         \* stop notifications received by the loop
    received,          \* instance id -> stop notifications received about it
    exits,             \* times the loop left its for-loop
    inOrder,           \* no directory change was handled after a stop was received
    errSeen,           \* some received stop notification carried an error
    lastStop,          \* the last stop notification received, and what the loop did
    triggerCalls,      \* calls of TriggerRemovalAndNotify
    triggerTerm,       \* value of terminating at the last such call
    triggerCh,         \* value of stopCh passed in the last such call
    intrAwaiting,      \* the interrupt arrived while the loop was in its select
    startCalls,        \* calls of Start
    notifyCalls,       \* calls of NotifyOnStop by the loop
    restartCalls,      \* calls of Restart
    lastRestart,       \* restartsPending before the last directory change was
                       \* handled, and at the call of Restart
    \* proxy/proxy.go: one Handle invocation at a time
    hPc,               \* position of Handle: idle, parse, forward, deliver, done,
                       \* or panicked
    req,               \* the client's request
    fwd,               \* what forward returned
    w,                 \* the http.ResponseWriter: what the client has been sent
    listened,          \* the listener's calls in this invocation
    upstreamReq,       \* the request this invocation sent upstream
    sendErr,           \* sendResponse returned an error in this invocation
    callsThis,         \* upstream requests issued by this invocation
    upstreamCalls,     \* upstream requests issued by all invocations
    built,             \* invocations that read their body and built their upstream URL
    nRequests,         \* Handle invocations so far
    \* the commands that drive the engine's container themselves
    cmdKind,           \* "up" (with removal of the container), "mock" or "none"
    mainPc,            \* position of startMockEngine
    trapPc,            \* position of that trapExit's goroutine
    container,         \* "none", "created", "running", "stopped" or "removed"
    steps,             \* the teardown calls made so far, in their order
    procExit           \* "running", or the exit code: "0" or "nonzero"

loopVars == <<stopCh, terminating, restartsPending, restartOnChange, loopPc, handlerPc>>
engVars == <<current, engState, stopErr, regs, signalled, inflight>>
runVars == <<dirHandled, stopsRecv, received, exits, inOrder, errSeen, lastStop,
             triggerCalls, triggerTerm, intrAwaiting>>
callVars == <<startCalls, notifyCalls, restartCalls, lastRestart, triggerCh>>
histVars == <<runVars, callVars>>
proxyVars == <<hPc, req, fwd, w, listened, upstreamReq, sendErr, callsThis, upstreamCalls,
              built, nRequests>>
ctrVars == <<cmdKind, mainPc, trapPc, container, steps, procExit>>
vars == <<loopVars, engVars, histVars, proxyVars, ctrVars>>

\* one instance per Start and per Restart
MaxInst == MaxRestarts + 1
Inst == 1..MaxInst

\* term, pending, cur and restarts are terminating, restartsPending, the current
\* instance and the calls of Restart as the stop notification was received
NoStop == [inst |-> 0, err |-> FALSE, trig |-> FALSE, waiters |-> 0,
           warned |-> FALSE, pending |-> 0, term |-> FALSE, cur |-> 0, restarts |-> 0]
NoRestart == [before |-> 0, atCall |-> 0]

\* ------------------------------------------------------ engine handle

Min(a, b) == IF a < b THEN a ELSE b

\* Register interest of channel ch in the stop of instance i.  Before Start
\* there is no instance to wait for, and a nil channel can receive nothing.
Register(i, ch) ==
    IF i = 0 \/ ch = "nil"
    THEN regs' = regs
    ELSE regs' = [regs EXCEPT ![i] = Min(regs[i] + 1, MaxWaiters)]

\* The instance i is asked to stop (no effect on one that is stopping or gone).
AskStop(st, i) ==
    IF i # 0 /\ st[i] = "running" THEN [st EXCEPT ![i] = "stopping"] ELSE st

\* mockEngine.Start()
EngineStart ==
    /\ current' = 1
    /\ engState' = [engState EXCEPT ![1] = "running"]
    /\ UNCHANGED <<stopErr, regs, signalled, inflight>>

\* mockEngine.NotifyOnStop(ch): registers, changes nothing else
EngineNotifyOnStop(ch) ==
    /\ Register(current, ch)
    /\ UNCHANGED <<current, engState, stopErr, signalled, inflight>>

\* mockEngine.Restart(ch): stops the current instance, starts a replacement and
\* arranges the notification of the old instance's stop
EngineRestart(ch) ==
    /\ Register(current, ch)
    /\ current' = current + 1
    /\ engState' = [AskStop(engState, current) EXCEPT ![current + 1] = "running"]
    /\ UNCHANGED <<stopErr, signalled, inflight>>

\* mockEngine.TriggerRemovalAndNotify(ch): initiates teardown, same notification
EngineTriggerRemovalAndNotify(ch) ==
    /\ Register(current, ch)
    /\ engState' = AskStop(engState, current)
    /\ UNCHANGED <<current, stopErr, signalled, inflight>>

\* The stop of an instance that was asked to stop completes.
StopCompletes(i, err) ==
    /\ engState[i] = "stopping"
    /\ engState' = [engState EXCEPT ![i] = "stopped"]
    /\ stopErr' = [stopErr EXCEPT ![i] = err]
    /\ UNCHANGED <<current, regs, signalled, inflight>>
    /\ UNCHANGED <<loopVars, histVars>>
    /\ UNCHANGED <<proxyVars, ctrVars>>

\* The running instance stops although nobody asked it to.
EngineCrash(err) ==
    /\ current # 0
    /\ engState[current] = "running"
    /\ engState' = [engState EXCEPT ![current] = "stopped"]
    /\ stopErr' = [stopErr EXCEPT ![current] = err]
    /\ UNCHANGED <<current, regs, signalled, inflight>>
    /\ UNCHANGED <<loopVars, histVars>>
    /\ UNCHANGED <<proxyVars, ctrVars>>

\* May the stop of instance i still be delivered to a waiter?
Deliverable_dup(i) == engState[i] = "stopped"

Deliverable(i) == engState[i] = "stopped" /\ i \notin signalled

\* The debounced event: the stop of instance i is delivered to one registration
\* of stopCh; a goroutine now blocks sending it on the channel.
Signal(i) ==
    /\ Deliverable(i)
    /\ regs[i] > 0
    /\ signalled' = signalled \cup {i}
    /\ inflight' = Append(inflight, [inst |-> i, err |-> stopErr[i],
                                     trig |-> triggerCalls > 0, waiters |-> regs[i]])
    /\ UNCHANGED <<current, engState, stopErr, regs>>
    /\ UNCHANGED <<loopVars, histVars>>
    /\ UNCHANGED <<proxyVars, ctrVars>>

\* ------------------------------------------------- trapExit's goroutine

\* <-c; println(); terminating = true
Interrupt ==
    /\ handlerPc = "waiting"
    /\ handlerPc' = "signalled"
    /\ terminating' = TRUE
    /\ intrAwaiting' = (loopPc = "AwaitingEvent")
    /\ UNCHANGED <<stopCh, restartsPending, restartOnChange, loopPc>>
    /\ UNCHANGED engVars
    /\ UNCHANGED <<dirHandled, stopsRecv, received, exits, inOrder, errSeen, lastStop,
                   triggerCalls, triggerTerm>>
    /\ UNCHANGED callVars
    /\ UNCHANGED <<proxyVars, ctrVars>>

\* mockEngine.TriggerRemovalAndNotify(stopCh)
HandlerTrigger ==
    /\ handlerPc = "signalled"
    /\ handlerPc' = "done"
    /\ EngineTriggerRemovalAndNotify(stopCh)
    /\ triggerCalls' = triggerCalls + 1
    /\ triggerTerm' = terminating
    /\ triggerCh' = stopCh
    /\ UNCHANGED <<stopCh, terminating, restartsPending, restartOnChange, loopPc>>
    /\ UNCHANGED <<dirHandled, stopsRecv, received, exits, inOrder, errSeen, lastStop,
                   intrAwaiting>>
    /\ UNCHANGED <<startCalls, notifyCalls, restartCalls, lastRestart>>
    /\ UNCHANGED <<proxyVars, ctrVars>>

\* ------------------------------------------------------ startControlLoop

\* stopCh = make(chan debounce.AtMostOnceEvent)
LoopMakeChannel ==
    /\ loopPc = "init"
    /\ stopCh' = "ch"
    /\ loopPc' = "start"
    /\ UNCHANGED <<terminating, restartsPending, restartOnChange, handlerPc>>
    /\ UNCHANGED <<engVars, histVars>>
    /\ UNCHANGED <<proxyVars, ctrVars>>

\* Where the loop goes after an event that does not end it: to the top of the
\* for-loop, the call of NotifyOnStop  (a mutant goes straight to the select)
LoopTop_select == "AwaitingEvent"

LoopTop == "notify"

\* mockEngine.Start(); dirUpdated = fileutil.WatchDir(configDir)
LoopStart ==
    /\ loopPc = "start"
    /\ EngineStart
    /\ startCalls' = startCalls + 1
    /\ loopPc' = LoopTop
    /\ UNCHANGED <<stopCh, terminating, restartsPending, restartOnChange, handlerPc>>
    /\ UNCHANGED <<runVars, notifyCalls, restartCalls, lastRestart, triggerCh>>
    /\ UNCHANGED <<proxyVars, ctrVars>>

\* mockEngine.NotifyOnStop(stopCh), then the select
LoopNotifyOnStop ==
    /\ loopPc = "notify"
    /\ EngineNotifyOnStop(stopCh)
    /\ notifyCalls' = notifyCalls + 1
    /\ loopPc' = "AwaitingEvent"
    /\ UNCHANGED <<stopCh, terminating, restartsPending, restartOnChange, handlerPc>>
    /\ UNCHANGED <<runVars, startCalls, restartCalls, lastRestart, triggerCh>>
    /\ UNCHANGED <<proxyVars, ctrVars>>

\* restartsPending++  (a mutant forgets it, another counts the restart twice)
IncPending_forgot(n) == n

IncPending_twice(n) == n + 2

IncPending(n) == n + 1

\* dirUpdated is the watcher's channel when restartOnChange is set and nil
\* otherwise, and nothing is ever received from a nil channel  (a mutant
\* watches the directory whatever the flag is)
DirUpdatedReady_always(roc) == TRUE

DirUpdatedReady(roc) == roc

\* case <-dirUpdated
LoopDirChange ==
    /\ loopPc = "AwaitingEvent"
    /\ DirUpdatedReady(restartOnChange)
    /\ dirHandled < MaxRestarts
    /\ restartsPending' = IncPending(restartsPending)
    /\ EngineRestart(stopCh)
    /\ restartCalls' = restartCalls + 1
    /\ lastRestart' = [before |-> restartsPending, atCall |-> restartsPending']
    /\ loopPc' = LoopTop
    /\ dirHandled' = dirHandled + 1
    /\ inOrder' = (inOrder /\ stopsRecv = 0)
    /\ UNCHANGED <<stopCh, terminating, restartOnChange, handlerPc>>
    /\ UNCHANGED <<stopsRecv, received, exits, errSeen, lastStop, triggerCalls,
                   triggerTerm, intrAwaiting>>
    /\ UNCHANGED <<startCalls, notifyCalls, triggerCh>>
    /\ UNCHANGED <<proxyVars, ctrVars>>

\* stopEvent.Err != nil && !terminating  (a mutant warns whatever terminating
\* is, another whatever the notification carries)
ShouldWarn_always(err, term) == err

ShouldWarn_anyStop(err, term) == ~term

ShouldWarn(err, term) == err /\ ~term

\* restartsPending > 0  (a mutant is off by one, one way or the other)
StopExpected_off(n) == n > 1

StopExpected_nonneg(n) == n >= 0

StopExpected(n) == n > 0

\* restartsPending--  (a mutant takes two)
DecPending_two(n) == n - 2

DecPending(n) == n - 1

\* case stopEvent := <-stopCh
LoopStop ==
    /\ loopPc = "AwaitingEvent"
    /\ stopCh = "ch"
    /\ inflight # <<>>
    /\ LET ev == Head(inflight) IN
        /\ inflight' = Tail(inflight)
        /\ lastStop' = [inst |-> ev.inst, err |-> ev.err, trig |-> ev.trig,
                        waiters |-> ev.waiters,
                        warned |-> ShouldWarn(ev.err, terminating),
                        pending |-> restartsPending, term |-> terminating,
                        cur |-> current, restarts |-> restartCalls]
        /\ received' = [received EXCEPT ![ev.inst] = @ + 1]
        /\ errSeen' = (errSeen \/ ev.err)
    /\ stopsRecv' = stopsRecv + 1
    /\ IF StopExpected(restartsPending)
       THEN /\ restartsPending' = DecPending(restartsPending)
            /\ loopPc' = LoopTop
            /\ exits' = exits
       ELSE /\ restartsPending' = restartsPending
            /\ loopPc' = "Terminated"
            /\ exits' = exits + 1
    /\ UNCHANGED <<stopCh, terminating, restartOnChange, handlerPc>>
    /\ UNCHANGED <<current, engState, stopErr, regs, signalled>>
    /\ UNCHANGED <<dirHandled, inOrder, triggerCalls, triggerTerm, intrAwaiting>>
    /\ UNCHANGED callVars
    /\ UNCHANGED <<proxyVars, ctrVars>>

\* terminating = true; logrus.Debug("shutting down")
LoopShutdown ==
    /\ loopPc = "Terminated"
    /\ terminating' = TRUE
    /\ loopPc' = "done"
    /\ UNCHANGED <<stopCh, restartsPending, restartOnChange, handlerPc>>
    /\ UNCHANGED <<engVars, histVars>>
    /\ UNCHANGED <<proxyVars, ctrVars>>

\* ===================================================== proxy/proxy.go

\* A header name is the sequence of its characters, so that the case of each
\* one is there to compare and to canonicalise.
Lowers == <<"a", "b", "c", "d", "e", "f", "g", "h", "i", "j", "k", "l", "m", "n", "o", "p", "q", "r", "s", "t", "u", "v", "w", "x", "y", "z">>
Uppers == <<"A", "B", "C", "D", "E", "F", "G", "H", "I", "J", "K", "L", "M", "N", "O", "P", "Q", "R", "S", "T", "U", "V", "W", "X", "Y", "Z">>

IsLower(c) == \E i \in 1..Len(Lowers) : Lowers[i] = c
IsUpper(c) == \E i \in 1..Len(Uppers) : Uppers[i] = c
ToUpper(c) == IF IsLower(c) THEN Uppers[CHOOSE i \in 1..Len(Lowers) : Lowers[i] = c] ELSE c
ToLower(c) == IF IsUpper(c) THEN Lowers[CHOOSE i \in 1..Len(Uppers) : Uppers[i] = c] ELSE c

\* strings.ToLower, for comparing names as HTTP does
LowerName(n) == [i \in 1..Len(n) |-> ToLower(n[i])]

\* The key net/http stores a header under: the first letter and every letter
\* after a hyphen in upper case, the others in lower case.
CanonicalMIMEHeaderKey(n) ==
    [i \in 1..Len(n) |-> IF i = 1 \/ n[i - 1] = "-" THEN ToUpper(n[i]) ELSE ToLower(n[i])]

skipProxyHeaders == {
    <<"A", "c", "c", "e", "p", "t", "-", "E", "n", "c", "o", "d", "i", "n", "g">>,
    <<"C", "o", "n", "n", "e", "c", "t", "i", "o", "n">>,
    <<"K", "e", "e", "p", "-", "A", "l", "i", "v", "e">>,
    <<"P", "r", "o", "x", "y", "-", "A", "u", "t", "h", "e", "n", "t", "i", "c", "a", "t", "e">>,
    <<"P", "r", "o", "x", "y", "-", "A", "u", "t", "h", "o", "r", "i", "z", "a", "t", "i", "o", "n">>,
    <<"T", "E">>,
    <<"T", "r", "a", "i", "l", "e", "r", "s">>,
    <<"T", "r", "a", "n", "s", "f", "e", "r", "-", "E", "n", "c", "o", "d", "i", "n", "g">>,
    <<"U", "p", "g", "r", "a", "d", "e">> }

skipRecordHeaders == {
    <<"A", "c", "c", "e", "p", "t", "-", "R", "a", "n", "g", "e", "s">>,
    <<"A", "g", "e">>,
    <<"C", "a", "c", "h", "e", "-", "C", "o", "n", "t", "r", "o", "l">>,
    <<"C", "o", "n", "t", "e", "n", "t", "-", "L", "e", "n", "g", "t", "h">>,
    <<"D", "a", "t", "e">>,
    <<"E", "t", "a", "g">>,
    <<"E", "x", "p", "i", "r", "e", "s">>,
    <<"L", "a", "s", "t", "-", "M", "o", "d", "i", "f", "i", "e", "d">>,
    <<"S", "e", "r", "v", "e", "r">>,
    <<"V", "a", "r", "y">> }

\* stringutil.Contains(entries, searchTerm): some entry equals the term
Contains(entries, searchTerm) == searchTerm \in entries

\* Header names as they come over the wire, and the value lists of one name.
WireNames == {
    <<"T", "E">>,
    <<"c", "o", "n", "n", "e", "c", "t", "i", "o", "n">>,
    <<"X", "-", "I", "d">>,
    <<"E", "T", "a", "g">> }
ValueLists == {<<"a", "b">>}

\* What net/http hands over as req.Header or resp.Header for the wire headers h
\* (a function from wire names to value lists): the same values under the
\* canonical key.
ParsedHeader(h) ==
    LET keys == {CanonicalMIMEHeaderKey(n) : n \in DOMAIN h}
    IN [k \in keys |-> h[CHOOSE n \in DOMAIN h : CanonicalMIMEHeaderKey(n) = k]]

WireHeaders == UNION {[names -> ValueLists] : names \in SUBSET WireNames}
EmptyHeader == [k \in {} |-> <<>>]

\* Values of key k in header h, none when the key is absent (http.Header.Values)
Values(h, k) == IF k \in DOMAIN h THEN h[k] ELSE <<>>

\* (a mutant leaves out the names of skipRecordHeaders as well)
Copied_record(source) ==
    {k \in DOMAIN source : ~Contains(skipProxyHeaders, k) /\ ~Contains(skipRecordHeaders, k)}

\* for headerName, headerValues := range *source: the names that are copied
Copied(source) == {k \in DOMAIN source : ~Contains(skipProxyHeaders, k)}

\* copyHeaders(source, destination): destination.Add(name, value) for every
\* value of every copied name, in the values' order.  The source's keys are
\* canonical, hence distinct after Add's canonicalisation, and the order in
\* which range visits them does not show in the result.
copyHeaders(source, destination) ==
    LET added == {CanonicalMIMEHeaderKey(k) : k \in Copied(source)}
        from(k) == CHOOSE n \in Copied(source) : CanonicalMIMEHeaderKey(n) = k
    IN [k \in DOMAIN destination \cup added |->
            IF k \in added THEN Values(destination, k) \o source[from(k)]
            ELSE destination[k]]

\* net/http status codes used by Handle
StatusOK == 200
StatusBadRequest == 400
StatusInternalServerError == 500
StatusBadGateway == 502

\* What an upstream may answer, and the bodies of requests and responses.
UpstreamStatuses == {200, 404, 503}
Bodies == {<<>>, <<1, 2>>}

\* upstreamValid: url.JoinPath accepts the upstream URL; methodValid:
\* http.NewRequest accepts the method
NoRequest == [headers |-> EmptyHeader, body |-> <<>>,
              bodyReadable |-> TRUE, upstreamValid |-> TRUE, methodValid |-> TRUE]
NoForward == [err |-> "none", statusCode |-> 0, body |-> <<>>, headers |-> EmptyHeader]
NoUpstreamReq == [headers |-> EmptyHeader, body |-> <<>>]
\* a fresh ResponseWriter: no header set, no status line sent, no body byte
\* lines are the status lines put on the wire, ignored counts the WriteHeader
\* calls that came after one
NewWriter == [header |-> EmptyHeader, wroteHeader |-> FALSE, status |-> 0,
              sent |-> EmptyHeader, body |-> <<>>, lines |-> <<>>, ignored |-> 0]

\* (a mutant lets a later call send a status line of its own)
WriteHeader_again(wr, code) ==
    [wr EXCEPT !.wroteHeader = TRUE, !.status = code, !.sent = wr.header,
               !.lines = Append(@, code)]

\* w.WriteHeader(code): sends the status line and the headers set so far; a
\* second call changes nothing (net/http logs it as superfluous)
WriteHeader(wr, code) ==
    IF wr.wroteHeader THEN [wr EXCEPT !.ignored = @ + 1]
    ELSE [wr EXCEPT !.wroteHeader = TRUE, !.status = code, !.sent = wr.header,
                    !.lines = Append(@, code)]

\* w.Write(body): sends the status line as 200 OK if none was sent, then the
\* body; ok is whether the bytes reach the client
Write(wr, body, ok) ==
    LET w1 == IF wr.wroteHeader THEN wr ELSE WriteHeader(wr, StatusOK)
    IN IF ok THEN [w1 EXCEPT !.body = @ \o body] ELSE w1

\* A request arrives: Handle(upstream, w, req, listener) is called.
HandleStart ==
    /\ hPc = "idle"
    /\ nRequests < MaxRequests
    /\ \E h \in WireHeaders, b \in Bodies, readable \in BOOLEAN, valid \in BOOLEAN,
          method \in BOOLEAN :
          req' = [headers |-> ParsedHeader(h), body |-> b, bodyReadable |-> readable,
                  upstreamValid |-> valid, methodValid |-> method]
    /\ hPc' = "parse"
    /\ nRequests' = nRequests + 1
    /\ UNCHANGED <<fwd, w, listened, upstreamReq, sendErr, callsThis, upstreamCalls, built>>
    /\ UNCHANGED <<loopVars, engVars, histVars, ctrVars>>

\* if err != nil { ...; return }  (a mutant forgets the return)
AfterError_noReturn(failed, next) == next

AfterError(failed, next) == IF failed THEN "done" ELSE next

\* parseRequest: io.ReadAll(req.Body) failed  (a mutant swallows the error)
ParseFailed_swallowed(r) == FALSE

ParseFailed(r) == ~r.bodyReadable

\* parseRequest and Handle's check of its error
HandleParse ==
    /\ hPc = "parse"
    /\ LET failed == ParseFailed(req) IN
        /\ w' = IF failed THEN WriteHeader(w, StatusBadRequest) ELSE w
        /\ hPc' = AfterError(failed, "forward")
    /\ UNCHANGED <<req, fwd, listened, upstreamReq, sendErr, callsThis, upstreamCalls,
                   built, nRequests>>
    /\ UNCHANGED <<loopVars, engVars, histVars, ctrVars>>

\* forward's results: the zero values and the error, or the response
ForwardResult(err, resp) == IF err # "none" THEN [NoForward EXCEPT !.err = err] ELSE resp

\* forward up to the use of http.NewRequest's result: the error of NewRequest
\* is not looked at, and when it failed req is nil and req.Header panics.  The
\* panic leaves Handle with nothing written to the ResponseWriter.
HandleForwardPanics ==
    /\ hPc = "forward"
    /\ req.upstreamValid /\ ~req.methodValid
    /\ hPc' = "panicked"
    /\ built' = built + 1
    /\ UNCHANGED <<req, fwd, w, listened, upstreamReq, sendErr, callsThis, upstreamCalls,
                   nRequests>>
    /\ UNCHANGED <<loopVars, engVars, histVars, ctrVars>>

\* forward and Handle's check of its error.  url.JoinPath fails on a base URL
\* that does not parse; client.Do and the read of the response body fail as the
\* network decides.
HandleForward ==
    /\ hPc = "forward"
    /\ req.upstreamValid => req.methodValid
    /\ \E err \in {"none", "do", "read"}, st \in UpstreamStatuses,
          h \in WireHeaders, b \in Bodies :
        LET joinErr == ~req.upstreamValid
            result == ForwardResult(IF joinErr THEN "join" ELSE err,
                                    [err |-> "none", statusCode |-> st, body |-> b,
                                     headers |-> ParsedHeader(h)])
        IN
        /\ (joinErr \/ err # "none") => (st = 200 /\ h = EmptyHeader /\ b = <<>>)
        /\ joinErr => err = "none"
        /\ fwd' = result
        /\ IF joinErr
           THEN UNCHANGED <<upstreamReq, callsThis, upstreamCalls, built>>
           ELSE /\ upstreamReq' = [headers |-> copyHeaders(req.headers, EmptyHeader),
                                   body |-> req.body]
                /\ callsThis' = callsThis + 1
                /\ upstreamCalls' = upstreamCalls + 1
                /\ built' = built + 1
        /\ w' = IF result.err # "none" THEN WriteHeader(w, StatusBadGateway) ELSE w
        /\ hPc' = AfterError(result.err # "none", "deliver")
    /\ UNCHANGED <<req, listened, sendErr, nRequests>>
    /\ UNCHANGED <<loopVars, engVars, histVars, ctrVars>>

\* sendResponse(w, headers, statusCode, body, client); err is its error
sendResponse(wr, f, ok) ==
    [w |-> Write([wr EXCEPT !.header = copyHeaders(f.headers, wr.header)], f.body, ok),
     err |-> ~ok]

\* one call of the listener: its arguments, and the writer as it was then
ListenerCall(f, wr) ==
    [statusCode |-> f.statusCode, body |-> f.body, headers |-> f.headers, wBefore |-> wr]

\* listener(...); err = sendResponse(...)  (a mutant calls them the other way round)
Deliver_sendFirst(wr, f, ok) ==
    LET sr == sendResponse(wr, f, ok)
    IN [calls |-> <<ListenerCall(f, sr.w)>>, w |-> sr.w, err |-> sr.err]

Deliver(wr, f, ok) ==
    LET call == ListenerCall(f, wr)
        sr == sendResponse(wr, f, ok)
    IN [calls |-> <<call>>, w |-> sr.w, err |-> sr.err]

\* Handle from the listener's call to its return
HandleDeliver ==
    /\ hPc = "deliver"
    /\ \E ok \in BOOLEAN :
        LET d == Deliver(w, fwd, ok) IN
        /\ listened' = listened \o d.calls
        /\ sendErr' = d.err
        /\ w' = IF d.err THEN WriteHeader(d.w, StatusInternalServerError) ELSE d.w
    /\ hPc' = "done"
    /\ UNCHANGED <<req, fwd, upstreamReq, callsThis, upstreamCalls, built, nRequests>>
    /\ UNCHANGED <<loopVars, engVars, histVars, ctrVars>>

\* Handle returns, or its panic is caught by its caller; the next invocation
\* has a request, a writer and locals of its own.
HandleReturn ==
    /\ hPc \in {"done", "panicked"}
    /\ hPc' = "idle"
    /\ req' = NoRequest
    /\ fwd' = NoForward
    /\ w' = NewWriter
    /\ listened' = <<>>
    /\ upstreamReq' = NoUpstreamReq
    /\ sendErr' = FALSE
    /\ callsThis' = 0
    /\ UNCHANGED <<upstreamCalls, built, nRequests>>
    /\ UNCHANGED <<loopVars, engVars, histVars, ctrVars>>

ProxyIdle ==
    /\ hPc = "idle"
    /\ req = NoRequest
    /\ fwd = NoForward
    /\ w = NewWriter
    /\ listened = <<>>
    /\ upstreamReq = NoUpstreamReq
    /\ sendErr = FALSE
    /\ callsThis = 0
    /\ upstreamCalls = 0
    /\ built = 0
    /\ nRequests = 0

\* ============================= the container-direct commands (up, mock)

\* One call of startMockEngine that panics on an error: the process dies with
\* a non-zero exit code.
MainCall(at, next, ok) ==
    /\ procExit = "running"
    /\ mainPc = at
    /\ mainPc' = (IF ok THEN next ELSE at)
    /\ procExit' = (IF ok THEN procExit ELSE "nonzero")

\* client.NewClientWithOpts
NewClient(ok) ==
    /\ MainCall("client", "image", ok)
    /\ UNCHANGED <<cmdKind, trapPc, container, steps>>
    /\ UNCHANGED <<loopVars, engVars, histVars, proxyVars>>

\* ensureContainerImage (up), cli.ImagePull and io.Copy (mock)
EnsureImage(ok) ==
    /\ MainCall("image", "create", ok)
    /\ UNCHANGED <<cmdKind, trapPc, container, steps>>
    /\ UNCHANGED <<loopVars, engVars, histVars, proxyVars>>

\* cli.ContainerCreate
ContainerCreate(ok) ==
    /\ MainCall("create", "start", ok)
    /\ container' = (IF ok THEN "created" ELSE container)
    /\ UNCHANGED <<cmdKind, trapPc, steps>>
    /\ UNCHANGED <<loopVars, engVars, histVars, proxyVars>>

\* cli.ContainerStart
ContainerStart(ok) ==
    /\ MainCall("start", "trap", ok)
    /\ container' = (IF ok THEN "running" ELSE container)
    /\ UNCHANGED <<cmdKind, trapPc, steps>>
    /\ UNCHANGED <<loopVars, engVars, histVars, proxyVars>>

\* trapExit(cli, ctx, resp.ID): the goroutine now waits for a signal
TrapExit ==
    /\ MainCall("trap", "logs", TRUE)
    /\ trapPc' = "waiting"
    /\ UNCHANGED <<cmdKind, container, steps>>
    /\ UNCHANGED <<loopVars, engVars, histVars, proxyVars>>

\* cli.ContainerLogs with Follow
ContainerLogs(ok) ==
    /\ MainCall("logs", "copy", ok)
    /\ UNCHANGED <<cmdKind, trapPc, container, steps>>
    /\ UNCHANGED <<loopVars, engVars, histVars, proxyVars>>

\* stdcopy.StdCopy returns when the followed log stream ends, which it does
\* when the container is no longer running; startMockEngine and the command
\* then return and the process ends with exit code 0.  An error panics.
StdCopy(ok) ==
    /\ procExit = "running"
    /\ mainPc = "copy"
    /\ ok => container \in {"stopped", "removed"}
    /\ mainPc' = (IF ok THEN "returned" ELSE mainPc)
    /\ procExit' = (IF ok THEN "0" ELSE "nonzero")
    /\ UNCHANGED <<cmdKind, trapPc, container, steps>>
    /\ UNCHANGED <<loopVars, engVars, histVars, proxyVars>>

\* The engine in the container ends, of its own accord or as it was asked to.
ContainerExits ==
    /\ procExit = "running"
    /\ container = "running"
    /\ container' = "stopped"
    /\ UNCHANGED <<cmdKind, mainPc, trapPc, steps, procExit>>
    /\ UNCHANGED <<loopVars, engVars, histVars, proxyVars>>

\* <-c: SIGINT or SIGTERM reaches trapExit's goroutine
TrapSignal ==
    /\ procExit = "running"
    /\ trapPc = "waiting"
    /\ trapPc' = "stop"
    /\ UNCHANGED <<cmdKind, mainPc, container, steps, procExit>>
    /\ UNCHANGED <<loopVars, engVars, histVars, proxyVars>>

\* One call of stopMockEngine: fatal says whether its error panics.
TrapCall(at, next, step, ok, fatal) ==
    /\ procExit = "running"
    /\ trapPc = at
    /\ steps' = Append(steps, step)
    /\ trapPc' = (IF ok \/ ~fatal THEN next ELSE at)
    /\ procExit' = (IF ok \/ ~fatal THEN procExit ELSE "nonzero")

\* cli.ContainerStop is called: the daemon refuses (a panic) or asks the
\* container to stop
ContainerStop(ok) ==
    /\ TrapCall("stop", "stopping", "stop", ok, TRUE)
    /\ UNCHANGED <<cmdKind, mainPc, container>>
    /\ UNCHANGED <<loopVars, engVars, histVars, proxyVars>>

\* cli.ContainerStop returns, once the container has stopped
ContainerStopReturns ==
    /\ procExit = "running"
    /\ trapPc = "stopping"
    /\ container # "running"
    /\ trapPc' = "wait"
    /\ UNCHANGED <<cmdKind, mainPc, container, steps, procExit>>
    /\ UNCHANGED <<loopVars, engVars, histVars, proxyVars>>

\* Is there a removal after the wait?  (up removes the container, mock does not)
Removes(kind) == kind = "up"

\* cli.ContainerWait for not-running: up warns of an error, mock panics
ContainerWait(ok) ==
    /\ TrapCall("wait", IF Removes(cmdKind) THEN "remove" ELSE "exit", "wait", ok,
                cmdKind = "mock")
    /\ UNCHANGED <<cmdKind, mainPc, container>>
    /\ UNCHANGED <<loopVars, engVars, histVars, proxyVars>>

\* cli.ContainerRemove: an error is a warning
ContainerRemove(ok) ==
    /\ TrapCall("remove", "exit", "remove", ok, FALSE)
    /\ container' = (IF ok THEN "removed" ELSE container)
    /\ UNCHANGED <<cmdKind, mainPc>>
    /\ UNCHANGED <<loopVars, engVars, histVars, proxyVars>>

\* os.Exit(0)
OsExit ==
    /\ procExit = "running"
    /\ trapPc = "exit"
    /\ trapPc' = "exited"
    /\ procExit' = "0"
    /\ UNCHANGED <<cmdKind, mainPc, container, steps>>
    /\ UNCHANGED <<loopVars, engVars, histVars, proxyVars>>

\* no container-direct command runs
CtrIdle ==
    /\ cmdKind = "none"
    /\ mainPc = "none"
    /\ trapPc = "none"
    /\ container = "none"
    /\ steps = <<>>
    /\ procExit = "running"

\* ----------------------------------------------------- specification

LoopInit ==
    /\ stopCh = "nil"
    /\ terminating = FALSE
    /\ restartsPending = 0
    /\ restartOnChange \in BOOLEAN
    /\ loopPc = "init"
    /\ handlerPc = "waiting"
    /\ current = 0
    /\ engState = [i \in Inst |-> "none"]
    /\ stopErr = [i \in Inst |-> FALSE]
    /\ regs = [i \in Inst |-> 0]
    /\ signalled = {}
    /\ inflight = <<>>
    /\ dirHandled = 0
    /\ stopsRecv = 0
    /\ received = [i \in Inst |-> 0]
    /\ exits = 0
    /\ inOrder = TRUE
    /\ errSeen = FALSE
    /\ lastStop = NoStop
    /\ triggerCalls = 0
    /\ triggerTerm = FALSE
    /\ triggerCh = "nil"
    /\ intrAwaiting = FALSE
    /\ startCalls = 0
    /\ notifyCalls = 0
    /\ restartCalls = 0
    /\ lastRestart = NoRestart

\* the steps the loop's goroutine takes of its own accord: all but the receipt
\* of a directory change, which waits for the watcher
LoopStep ==
    \/ LoopMakeChannel
    \/ LoopStart
    \/ LoopNotifyOnStop
    \/ LoopStop
    \/ LoopShutdown

EngineStep ==
    \/ \E i \in Inst, err \in BOOLEAN : StopCompletes(i, err)
    \/ \E i \in Inst : Signal(i)

Init == LoopInit /\ ProxyIdle /\ CtrIdle

Next ==
    \/ LoopMakeChannel
    \/ LoopStart
    \/ LoopNotifyOnStop
    \/ LoopDirChange
    \/ LoopStop
    \/ LoopShutdown
    \/ Interrupt
    \/ HandlerTrigger
    \/ \E i \in Inst, err \in BOOLEAN : StopCompletes(i, err)
    \/ \E i \in Inst : Signal(i)
    \/ \E err \in BOOLEAN : EngineCrash(err)

Spec == Init /\ [][Next]_vars

\* Goroutines that can run do run: the loop, the handler once signalled, the
\* engine's stop and its notification.  Directory changes, the interrupt and an
\* engine crash are the environment's and are not forced.
FairSpec ==
    /\ Spec
    /\ WF_vars(LoopStep)
    /\ WF_vars(HandlerTrigger)
    /\ WF_vars(EngineStep)

\* The proxy alone: the control loop has not started and stays so.
ProxyInit == LoopInit /\ restartOnChange /\ ProxyIdle /\ CtrIdle

ProxyNext ==
    \/ HandleStart
    \/ HandleParse
    \/ HandleForwardPanics
    \/ HandleForward
    \/ HandleDeliver
    \/ HandleReturn

ProxySpec == ProxyInit /\ [][ProxyNext]_vars

\* A container-direct command alone, from the call of startMockEngine.
CtrInit ==
    /\ LoopInit /\ restartOnChange /\ ProxyIdle
    /\ cmdKind \in {"up", "mock"}
    /\ mainPc = "client"
    /\ trapPc = "none"
    /\ container = "none"
    /\ steps = <<>>
    /\ procExit = "running"

CtrNext ==
    \/ \E ok \in BOOLEAN : NewClient(ok)
    \/ \E ok \in BOOLEAN : EnsureImage(ok)
    \/ \E ok \in BOOLEAN : ContainerCreate(ok)
    \/ \E ok \in BOOLEAN : ContainerStart(ok)
    \/ TrapExit
    \/ \E ok \in BOOLEAN : ContainerLogs(ok)
    \/ \E ok \in BOOLEAN : StdCopy(ok)
    \/ ContainerExits
    \/ TrapSignal
    \/ \E ok \in BOOLEAN : ContainerStop(ok)
    \/ ContainerStopReturns
    \/ \E ok \in BOOLEAN : ContainerWait(ok)
    \/ \E ok \in BOOLEAN : ContainerRemove(ok)
    \/ OsExit

ContainerSpec == CtrInit /\ [][CtrNext]_vars

\* ------------------------------------------------------------ claims

Exited == loopPc \in {"Terminated", "done"}

\* C1: when all N directory changes are handled before the first stop
\* notification and no notification carries an error, the loop has not exited
\* while at most N stops were received, it exits exactly once, on stop N+1, and
\* restartsPending is 0 from then on.
C1_BurstThenStops ==
    (inOrder /\ ~errSeen) =>
        /\ ~Exited => (exits = 0 /\ stopsRecv <= dirHandled
                       /\ restartsPending = dirHandled - stopsRecv)
        /\ Exited => (exits = 1 /\ stopsRecv = dirHandled + 1 /\ restartsPending = 0)

C1_Witness ==
    /\ loopPc = "Terminated"
    /\ inOrder /\ ~errSeen
    /\ dirHandled >= 2
    /\ stopsRecv = dirHandled + 1

\* C2: the loop leaves its for-loop only in a step that receives a stop
\* notification while restartsPending = 0; a stop received while
\* restartsPending > 0 and a directory change both lead back to the loop's top.
C2_ExitOnlyOnStopWithNonePending ==
    [][ /\ (loopPc # "Terminated" /\ loopPc' = "Terminated")
            => (loopPc = "AwaitingEvent" /\ stopsRecv' = stopsRecv + 1
                /\ dirHandled' = dirHandled /\ restartsPending = 0)
        /\ (stopsRecv' # stopsRecv /\ restartsPending > 0) => loopPc' = "notify"
        /\ (dirHandled' # dirHandled) => loopPc' = "notify" ]_vars

C2_Witness ==
    /\ loopPc = "Terminated"
    /\ dirHandled >= 1
    /\ stopsRecv >= 2
    /\ lastStop.pending = 0

\* C3: an interrupt delivered while the loop waits in its select leads to the
\* loop's exit.
C3_InterruptLeadsToExit == intrAwaiting ~> Exited

\* C4: terminating is true when TriggerRemovalAndNotify is called, it is called
\* at most once and exactly once when the handler is through, and no stop
\* notification produced after that call is logged as a warning.
C4_InterruptNotWarned ==
    /\ triggerCalls <= 1
    /\ (triggerCalls = 1 => triggerTerm /\ terminating)
    /\ (handlerPc = "done" <=> triggerCalls = 1)
    /\ (lastStop.trig => ~lastStop.warned)

C4_Witness ==
    /\ intrAwaiting
    /\ triggerCalls = 1
    /\ loopPc = "Terminated"
    /\ lastStop.trig /\ lastStop.err /\ ~lastStop.warned

InFlightAbout(i) == Cardinality({k \in 1..Len(inflight) : inflight[k].inst = i})

\* C5: the stop of one engine instance reaches the stop channel exactly once,
\* however many registrations it had: received or in flight once when it was
\* signalled, never otherwise, and every receive has a signal of its own.
C5_StopDeliveredOnce ==
    /\ \A i \in Inst :
          received[i] + InFlightAbout(i) = (IF i \in signalled THEN 1 ELSE 0)
    /\ stopsRecv + Len(inflight) = Cardinality(signalled)

C5_Witness ==
    /\ lastStop.inst # 0
    /\ lastStop.waiters >= 2
    /\ received[lastStop.inst] = 1
    /\ stopsRecv >= 2

\* C6: when the request body cannot be read, the invocation ends without an
\* upstream request and without a call of the listener, and the client is sent
\* 400.
C6_BodyReadFailure ==
    (hPc = "done" /\ ~req.bodyReadable) =>
        /\ callsThis = 0
        /\ upstreamReq = NoUpstreamReq
        /\ listened = <<>>
        /\ w.wroteHeader /\ w.status = StatusBadRequest
        /\ w.status \in 400..499

C6_Witness ==
    /\ hPc = "done"
    /\ ~req.bodyReadable
    /\ req.upstreamValid
    /\ w.status = 400
    /\ upstreamCalls = 1

\* C7: when the upstream request was issued and failed (client.Do, or the read
\* of the response body), the invocation ends with exactly that one upstream
\* request, without a call of the listener, and the client is sent 502.
C7_UpstreamFailure ==
    (hPc \in {"deliver", "done"} /\ callsThis > 0 /\ fwd.err \in {"do", "read"}) =>
        /\ hPc = "done"
        /\ callsThis = 1
        /\ listened = <<>>
        /\ w.wroteHeader /\ w.status = StatusBadGateway
        /\ w.status \in 500..599
        /\ w.body = <<>>

C7_Witness ==
    /\ hPc = "done"
    /\ fwd.err = "read"
    /\ callsThis = 1
    /\ w.status = 502

\* C8: once the upstream round trip has completed, Handle calls the listener
\* exactly once, with the upstream's status code, body and headers, at a moment
\* when nothing has been set on or sent through the ResponseWriter; without a
\* completed round trip it never calls it.
C8_ListenerOnceBeforeWrite ==
    /\ (hPc = "done" /\ callsThis = 1 /\ fwd.err = "none") =>
          /\ Len(listened) = 1
          /\ listened[1].statusCode = fwd.statusCode
          /\ listened[1].body = fwd.body
          /\ listened[1].headers = fwd.headers
          /\ listened[1].wBefore = NewWriter
    /\ (hPc # "done" \/ fwd.err # "none") => listened = <<>>

C8_Witness ==
    /\ hPc = "done"
    /\ Len(listened) = 1
    /\ listened[1].statusCode = 404
    /\ listened[1].body # <<>>
    /\ listened[1].headers # EmptyHeader
    /\ w.wroteHeader /\ w.body # <<>>

\* Is the name n, compared as HTTP compares names, on the proxy's denylist?
Denylisted(n) == \E d \in skipProxyHeaders : LowerName(d) = LowerName(n)

\* the claim's filter: destination holds no denylisted key and every other key
\* of source with source's values in their order
FilteredCopy(source, destination) ==
    /\ \A k \in DOMAIN destination : ~Denylisted(k)
    /\ \A k \in DOMAIN source : ~Denylisted(k) =>
          (k \in DOMAIN destination /\ destination[k] = source[k])

\* C9: what copyHeaders puts into an empty destination, for the request's
\* headers on their way upstream and for the response's headers on their way
\* to the client, is the filtered copy.
C9_CopyHeadersFilters ==
    /\ callsThis > 0 => FilteredCopy(req.headers, upstreamReq.headers)
    /\ (hPc = "done" /\ listened # <<>>) => FilteredCopy(fwd.headers, w.header)

\* C10: after a round trip that completed and a response that was written, the
\* client has the upstream's status code, the filtered upstream headers and the
\* upstream's body, and the listener was given the upstream's status and body.
C10_ClientGetsUpstreamResponse ==
    (hPc = "done" /\ listened # <<>> /\ w.body = fwd.body) =>
        /\ w.status = fwd.statusCode
        /\ w.sent = copyHeaders(fwd.headers, EmptyHeader)
        /\ listened[1].statusCode = fwd.statusCode
        /\ listened[1].body = fwd.body

\* C11: at most one status line is sent per request; when writing the response
\* fails, the 500 that Handle then asks for is sent only if no status line had
\* been sent, and otherwise it is dropped and the status already sent stands.
C11_OneStatusPerRequest ==
    /\ Len(w.lines) <= 1
    /\ w.wroteHeader <=> (w.lines = <<w.status>>)
    /\ (hPc = "done" /\ sendErr) =>
          /\ w.wroteHeader
          /\ w.status \in 500..599 => w.ignored = 0
          /\ w.ignored > 0 => (w.status = StatusOK /\ w.ignored = 1)

C11_Witness ==
    /\ hPc = "done"
    /\ sendErr
    /\ fwd.statusCode = 503
    /\ w.lines = <<200>>
    /\ w.ignored = 1
    /\ w.body = <<>>

\* C12: a stop notification that carries an error and is received while
\* restartsPending = 0 and terminating is false is logged as a warning and ends
\* the loop; no Start and no Restart follows it, and no new engine instance.
C12_UnexpectedStopEndsLoop ==
    (lastStop.inst # 0 /\ lastStop.err /\ lastStop.pending = 0 /\ ~lastStop.term) =>
        /\ lastStop.warned
        /\ Exited
        /\ exits = 1
        /\ startCalls = 1
        /\ restartCalls = lastStop.restarts
        /\ current = lastStop.cur
        /\ restartsPending = 0

C12_Witness ==
    /\ loopPc = "done"
    /\ lastStop.err /\ lastStop.pending = 0 /\ ~lastStop.term
    /\ lastStop.warned
    /\ ~lastStop.trig
    /\ restartCalls = 1
    /\ engState[current] = "stopped"

\* C14: restartsPending is never negative, and it goes down only by one, in a
\* step that receives a stop notification while it is above 0.
C14_PendingNonNegative ==
    /\ [](restartsPending >= 0)
    /\ [][restartsPending' < restartsPending =>
            /\ restartsPending > 0
            /\ restartsPending' = restartsPending - 1
            /\ stopsRecv' = stopsRecv + 1
            /\ loopPc = "AwaitingEvent"]_vars

C14_Witness ==
    /\ lastStop.inst # 0
    /\ lastStop.pending = 2
    /\ restartsPending = 1
    /\ stopsRecv = 1

\* C15: handling a directory change raises restartsPending by exactly one
\* before Restart is called and calls Restart exactly once, so restartsPending
\* is the calls of Restart less the stop notifications received while it was
\* above 0 (all those received, less the one the loop left on).
C15_PendingCountsRestarts ==
    /\ restartCalls = dirHandled
    /\ restartCalls > 0 => lastRestart.atCall = lastRestart.before + 1
    /\ restartsPending = restartCalls - (stopsRecv - exits)

C15_Witness ==
    /\ restartCalls = 2
    /\ stopsRecv = 1
    /\ exits = 0
    /\ restartsPending = 1
    /\ lastRestart = [before |-> 0, atCall |-> 1]

\* C16: Start is called exactly once, before the loop; NotifyOnStop is called
\* exactly once in every iteration, so when the loop waits in its select it
\* has called it once more than it has handled events, and a registration for
\* the stop of the current instance is in place.
C16_NotifyEveryIteration ==
    /\ startCalls = (IF loopPc \in {"init", "start"} THEN 0 ELSE 1)
    /\ loopPc = "notify" => notifyCalls = dirHandled + stopsRecv
    /\ loopPc = "AwaitingEvent" =>
          /\ notifyCalls = dirHandled + stopsRecv + 1
          /\ regs[current] > 0
    /\ Exited => notifyCalls = dirHandled + stopsRecv

C16_Witness ==
    /\ loopPc = "AwaitingEvent"
    /\ dirHandled = 1
    /\ stopsRecv = 1
    /\ notifyCalls = 3
    /\ startCalls = 1

\* C17: a stop notification is logged as a warning exactly when it carries an
\* error and terminating is false as it is received, whatever restartsPending
\* is then.
C17_WarnIffErrorAndNotTerminating ==
    lastStop.inst # 0 => (lastStop.warned <=> (lastStop.err /\ ~lastStop.term))

C17_Witness ==
    /\ lastStop.warned
    /\ lastStop.err /\ ~lastStop.term
    /\ lastStop.pending > 0
    /\ loopPc = "notify"

\* the signal has reached trapExit's goroutine
SignalSeen == trapPc \notin {"none", "waiting"}

\* C13: in the container-direct commands, a process that ends after a
\* termination request with exit code 0 has by then stopped the container,
\* waited for it to be not running and removed it, in that order; and the exit
\* code is 0 only when startMockEngine returned or the handler called
\* os.Exit(0), and non-zero when the start-up did not get through.
C13_TeardownBeforeExit ==
    /\ (procExit = "0" /\ SignalSeen) => steps = <<"stop", "wait", "remove">>
    /\ procExit = "0" => (mainPc = "returned" \/ trapPc = "exited")
    /\ (procExit # "running" /\ mainPc \in {"client", "image", "create", "start"})
          => procExit = "nonzero"

\* C18: an invocation that has read its body and built its upstream URL has
\* issued exactly one upstream request, made from its own request, whatever
\* the invocations before it were; no invocation issues more than one, and the
\* upstream requests of a run are as many as such invocations.
C18_OneUpstreamRequestEach ==
    /\ callsThis <= 1
    /\ (hPc \in {"deliver", "done", "panicked"} /\ req.bodyReadable /\ req.upstreamValid) =>
          /\ callsThis = 1
          /\ upstreamReq = [headers |-> copyHeaders(req.headers, EmptyHeader),
                            body |-> req.body]
    /\ hPc \in {"idle", "done", "panicked"} => upstreamCalls = built

\* C19: when no upstream request can be built, because the upstream URL cannot
\* be joined or because http.NewRequest rejects the method, the invocation ends
\* with an error status sent to the client, without an upstream request and
\* without a call of the listener.
C19_NoRequestBuiltIsAnError ==
    (/\ hPc \in {"done", "panicked"}
     /\ req.bodyReadable
     /\ (~req.upstreamValid \/ ~req.methodValid)) =>
        /\ callsThis = 0
        /\ upstreamReq = NoUpstreamReq
        /\ listened = <<>>
        /\ w.wroteHeader
        /\ w.status \in 400..599

\* what copyHeaders makes of source in an empty destination: nothing that is
\* not in source, none of the names skipProxyHeaders spells, and every name
\* that is on neither list or on skipRecordHeaders, with its values
SameDenylist(source, destination) ==
    /\ DOMAIN destination \subseteq DOMAIN source
    /\ \A k \in DOMAIN source \cap skipProxyHeaders : k \notin DOMAIN destination
    /\ \A k \in DOMAIN source : (~Denylisted(k) \/ k \in skipRecordHeaders) =>
          (k \in DOMAIN destination /\ destination[k] = source[k])

\* C20: the request's headers on their way upstream and the response's headers
\* on their way to the client pass the same filter, skipProxyHeaders, and
\* skipRecordHeaders filters nothing: a header it names is copied.
C20_RecordHeadersCopied ==
    /\ callsThis > 0 => SameDenylist(req.headers, upstreamReq.headers)
    /\ (hPc = "done" /\ listened # <<>>) => SameDenylist(fwd.headers, w.header)

C20_Witness ==
    /\ hPc = "done"
    /\ listened # <<>>
    /\ DOMAIN req.headers \cap skipRecordHeaders # {}
    /\ DOMAIN upstreamReq.headers \cap skipRecordHeaders # {}
    /\ DOMAIN fwd.headers \cap skipRecordHeaders # {}
    /\ DOMAIN w.sent \cap skipRecordHeaders # {}
    /\ DOMAIN fwd.headers \cap skipProxyHeaders # {}
    /\ DOMAIN w.sent \cap skipProxyHeaders = {}

\* C21: whenever the interrupt handler calls TriggerRemovalAndNotify, the
\* channel it passes is the channel startControlLoop has made and the loop
\* receives from, never nil.
C21_TriggerOnLoopChannel ==
    triggerCalls > 0 => (triggerCh = "ch" /\ stopCh = "ch")

\* C22: with restartOnChange false no directory change is handled and Restart
\* is never called, restartsPending is 0 in every state, and the first stop
\* notification received ends the loop.
C22_NoRestartWithoutWatch ==
    ~restartOnChange =>
        /\ dirHandled = 0
        /\ restartCalls = 0
        /\ current <= 1
        /\ restartsPending = 0
        /\ stopsRecv <= 1
        /\ stopsRecv = 1 <=> Exited
        /\ exits = stopsRecv

C22_Witness ==
    /\ ~restartOnChange
    /\ loopPc = "done"
    /\ stopsRecv = 1
    /\ lastStop.inst = 1
    /\ lastStop.pending = 0
    /\ handlerPc = "waiting"

====
